---- MODULE Spec2Model ----
(***************************************************************************)
(* A model of the GPU resource core of the texture loading example:        *)
(* BufferBundle (src/src/buffer_bundle.rs) and LoadedImage                 *)
(* (src/src/loaded_image.rs), run against a device that records every     *)
(* call made on it and against a transfer queue that executes the          *)
(* submitted command buffer.                                               *)
(*                                                                         *)
(* Words are U32Bits wide instead of 32, so that TLC reaches the wrap      *)
(* of the row pitch computation; usize is wider than every value the       *)
(* model reaches and is modelled by the unbounded integers.                *)
(***************************************************************************)
EXTENDS Integers, Sequences, FiniteSets, TLC

\* ------------------------------------------------------------------ bounds

U32Bits == 5
MaxPitchWidth == 10
MaxAlignExp == 3
NumMemoryTypes == 2
MaxOps == 2
MaxBufOps == 3
MaxBufSize == 4
MaxPad == 1
MaxVerts == 2

\* --------------------------------------------------------- pure functions

RECURSIVE Pow2(_)
Pow2(n) == IF n = 0 THEN 1 ELSE 2 * Pow2(n - 1)

U32Mod == Pow2(U32Bits)

\* `x as u32`: the low U32Bits bits of x.
AsU32(x) == x % U32Mod

\* Bit i of the word m.
Bit(m, i) == (m \div Pow2(i)) % 2

\* a & b on words of n bits.
RECURSIVE BitAndN(_, _, _)
BitAndN(a, b, n) ==
    IF n = 0 THEN 0
    ELSE (a % 2) * (b % 2) + 2 * BitAndN(a \div 2, b \div 2, n - 1)

\* !a on a u32.
NotU32(a) == (U32Mod - 1) - a

\* loaded_image.rs:205  limits.optimal_buffer_copy_pitch_alignment as u32 - 1
row_alignment_mask_of(alignment) == AsU32(alignment) - 1

\* loaded_image.rs:207  size_of::<u32>() * width, a usize
row_size_of(width) == 4 * width

\* loaded_image.rs:208  the u32 sum row_size as u32 + row_alignment_mask leaves
\* the word: a debug build panics there, a release build wraps.
RowPitchOverflows(width, alignment) ==
    AsU32(row_size_of(width)) + row_alignment_mask_of(alignment) >= U32Mod

\* loaded_image.rs:208  ((row_size as u32 + mask) & !mask) as usize, wrapping.
row_pitch_of(width, alignment) ==
    BitAndN(AsU32(AsU32(row_size_of(width)) + row_alignment_mask_of(alignment)),
            NotU32(row_alignment_mask_of(alignment)), U32Bits)

\* loaded_image.rs:208-209  where a build with debug assertions panics: the
\* overflow check of the u32 sum, or debug_assert!(row_pitch >= row_size).
RowPitchPanics(debug, width, alignment) ==
    debug /\ ( RowPitchOverflows(width, alignment)
               \/ row_pitch_of(width, alignment) < row_size_of(width) )

Alignments == { Pow2(k) : k \in 0..MaxAlignExp }

\* ------------------------------------------------------------------ state

VARIABLES
    memory_types,   \* adapter.physical_device.memory_properties().memory_types
    alignment,      \* limits.optimal_buffer_copy_pitch_alignment
    pc,             \* the caller: "idle", "waiting" (in wait_for_fence), "panicked"
    op,             \* the API call in progress, or the last one
    ret,            \* what the last API call returned
    calls,          \* the device calls of the API call in progress or last made
    args,           \* the arguments of that API call
    ops,            \* API calls made so far
    bundle,         \* the caller's BufferBundle
    stray,          \* offsets past the mapped region that update_buffer wrote
    misuse,         \* invalid uses the device saw (destroyed handles used again)
    leaked,         \* live handles that no value owns any more, by kind
    debug_assertions, \* whether the build checks overflow and debug_assert!
    texture,        \* the LoadedImage value
    image_object,   \* the image behind texture.image
    descriptors,    \* what was written to texture.descriptor_set
    staging_bundle, \* edit_image's local staging_bundle
    cmd_buffer,     \* load_staging_buffer_into_image_object's cmd_buffer
    upload_fence,   \* its upload_fence
    queue,          \* the submissions the command queue has not executed yet
    p_width,        \* create_staging_buffer's width, for the row pitch alone
    p_row_pitch     \* its row_pitch: [state, value], state "none" before,
                    \* "panic" or "computed"

adapter_vars == << memory_types, alignment, debug_assertions >>
image_vars   == << texture, image_object, descriptors, staging_bundle, cmd_buffer,
                   upload_fence, queue >>
buffer_vars  == << bundle, stray >>
pitch_vars   == << p_width, p_row_pitch >>

vars == << memory_types, alignment, debug_assertions, pc, op, args, ret, calls, ops,
           bundle, stray, misuse, leaked, texture, image_object, descriptors,
           staging_bundle, cmd_buffer, upload_fence, queue, p_width, p_row_pitch >>

\* ----------------------------------------------------------------- adapter

Properties == { "DEVICE_LOCAL", "CPU_VISIBLE" }

MemoryTypeTables == [ 1..NumMemoryTypes -> SUBSET Properties ]

TypeMasks == 0..(Pow2(NumMemoryTypes) - 1)

NoMemoryType == -1

\* A selector that does not test the bit of the type mask.
RECURSIVE find_memory_type_any_mask(_, _, _, _)
find_memory_type_any_mask(types, type_mask, required, id) ==
    IF id >= Len(types) THEN NoMemoryType
    ELSE IF required \subseteq types[id + 1] THEN id
    ELSE find_memory_type_any_mask(types, type_mask, required, id + 1)

\* A selector that falls back to type 0 where none matches.
RECURSIVE find_memory_type_or_first(_, _, _, _)
find_memory_type_or_first(types, type_mask, required, id) ==
    IF id >= Len(types) THEN 0
    ELSE IF Bit(type_mask, id) # 0 /\ required \subseteq types[id + 1] THEN id
    ELSE find_memory_type_or_first(types, type_mask, required, id + 1)

\* buffer_bundle.rs:34-45, loaded_image.rs:55-66
\* memory_types.iter().enumerate().find(|(id, t)| type_mask & (1 << id) != 0
\*     && t.properties.contains(required)), scanning from index id.
RECURSIVE find_memory_type(_, _, _, _)
find_memory_type(types, type_mask, required, id) ==
    IF id >= Len(types) THEN NoMemoryType
    ELSE IF Bit(type_mask, id) # 0 /\ required \subseteq types[id + 1] THEN id
    ELSE find_memory_type(types, type_mask, required, id + 1)

\* ------------------------------------------------------------ BufferBundle

Uninit == -1

NoBytes == [ i \in {} |-> Uninit ]

\* A BufferBundle value (buffer_bundle.rs:12-18): the status of its two
\* handles, its requirements, whether `mapped` is Some, and the bytes of its
\* memory allocation.
NoBundle ==
    [ buffer |-> "none", memory |-> "none",
      requirements |-> [ size |-> 0, type_mask |-> 0 ], memory_type |-> 0,
      mapped |-> FALSE, bytes |-> NoBytes ]

Call(name, arg) == [ call |-> name, arg |-> arg ]

\* A construction that allocates the requested size, not requirements.size.
BufferBundle_new_allocate_requested(size, map_it, req, fail, id, c) ==
    [ ret |-> "Ok", lost |-> << >>,
      bundle |-> [ buffer |-> "live", memory |-> "live",
                   requirements |-> req, memory_type |-> id,
                   mapped |-> map_it,
                   bytes |-> [ i \in 0..(size - 1) |-> Uninit ] ],
      calls |-> c \o << Call("allocate_memory", <<id, size>>),
                         Call("bind_buffer_memory", <<0>>) >>
                  \o ( IF map_it THEN << Call("map_memory", <<0, size>>) >>
                       ELSE << >> ) ]

\* A construction that releases what it made when the bind fails.
BufferBundle_new_allocate_releasing(size, map_it, req, fail, id, c) ==
    IF fail = "bind_buffer_memory"
    THEN [ ret |-> "Bind", bundle |-> NoBundle, lost |-> << >>,
           calls |-> c \o << Call("allocate_memory", <<id, req.size>>),
                              Call("bind_buffer_memory", <<0>>),
                              Call("free_memory", << >>),
                              Call("destroy_buffer", << >>) >> ]
    ELSE [ ret |-> "Ok", lost |-> << >>,
           bundle |-> [ buffer |-> "live", memory |-> "live",
                        requirements |-> req, memory_type |-> id,
                        mapped |-> map_it,
                        bytes |-> [ i \in 0..(req.size - 1) |-> Uninit ] ],
           calls |-> c \o << Call("allocate_memory", <<id, req.size>>),
                              Call("bind_buffer_memory", <<0>>) >>
                       \o ( IF map_it THEN << Call("map_memory", <<0, req.size>>) >>
                            ELSE << >> ) ]

\* A construction that tries the allocation a second time when it fails.
BufferBundle_new_allocate_retry(size, map_it, req, fail, id, c) ==
    IF fail = "allocate_memory"
    THEN [ ret |-> "Allocate", bundle |-> NoBundle, lost |-> <<"buffer">>,
           calls |-> c \o << Call("allocate_memory", <<id, req.size>>),
                              Call("allocate_memory", <<id, req.size>>) >> ]
    ELSE [ ret |-> "Ok", lost |-> << >>,
           bundle |-> [ buffer |-> "live", memory |-> "live",
                        requirements |-> req, memory_type |-> id,
                        mapped |-> map_it,
                        bytes |-> [ i \in 0..(req.size - 1) |-> Uninit ] ],
           calls |-> c \o << Call("allocate_memory", <<id, req.size>>),
                              Call("bind_buffer_memory", <<0>>) >>
                       \o ( IF map_it THEN << Call("map_memory", <<0, req.size>>) >>
                            ELSE << >> ) ]

\* buffer_bundle.rs:46-66  from allocate_memory on, the type being found.
BufferBundle_new_allocate(size, map_it, req, fail, id, c) ==
    IF fail = "allocate_memory"
    THEN [ ret |-> "Allocate", bundle |-> NoBundle, lost |-> <<"buffer">>,
           calls |-> c \o << Call("allocate_memory", <<id, req.size>>) >> ]
    ELSE IF fail = "bind_buffer_memory"
    THEN [ ret |-> "Bind", bundle |-> NoBundle, lost |-> <<"buffer", "memory">>,
           calls |-> c \o << Call("allocate_memory", <<id, req.size>>),
                              Call("bind_buffer_memory", <<0>>) >> ]
    ELSE IF map_it /\ fail = "map_memory"
    THEN [ ret |-> "Map", bundle |-> NoBundle, lost |-> <<"buffer", "memory">>,
           calls |-> c \o << Call("allocate_memory", <<id, req.size>>),
                              Call("bind_buffer_memory", <<0>>),
                              Call("map_memory", <<0, req.size>>) >> ]
    ELSE [ ret |-> "Ok", lost |-> << >>,
           bundle |-> [ buffer |-> "live", memory |-> "live",
                        requirements |-> req, memory_type |-> id,
                        mapped |-> map_it,
                        bytes |-> [ i \in 0..(req.size - 1) |-> Uninit ] ],
           calls |-> c \o << Call("allocate_memory", <<id, req.size>>),
                              Call("bind_buffer_memory", <<0>>) >>
                       \o ( IF map_it THEN << Call("map_memory", <<0, req.size>>) >>
                            ELSE << >> ) ]

\* buffer_bundle.rs:21-68  BufferBundle::new(adapter, device, size, usage,
\* map_it) on a device that answers get_buffer_requirements with req and
\* fails the call named fail: what it returns, the device calls it makes,
\* and the handles it created and dropped on the way out (`?` releases none).
BufferBundle_new(size, usage, map_it, req, fail) ==
    IF fail = "create_buffer"
    THEN [ ret |-> "Creation", bundle |-> NoBundle, lost |-> << >>,
           calls |-> << Call("create_buffer", <<size, usage>>) >> ]
    ELSE LET c  == << Call("create_buffer", <<size, usage>>),
                      Call("get_buffer_requirements", << req.size, req.type_mask >>) >>
             id == find_memory_type(memory_types, req.type_mask, {"CPU_VISIBLE"}, 0)
         IN  IF id = NoMemoryType
             THEN [ ret |-> "MemoryId", bundle |-> NoBundle, lost |-> <<"buffer">>,
                    calls |-> c ]
             ELSE BufferBundle_new_allocate(size, map_it, req, fail, id, c)

\* What get_buffer_requirements may answer for a buffer of `size` bytes.
BufferRequirements(size) ==
    [ size : size..(size + MaxPad), type_mask : { 1, 2 } ]

HandleKinds ==
    { "buffer", "memory", "image", "image_view", "sampler", "descriptor_set",
      "fence", "command_buffer" }

\* The handles of `lost` (a sequence of kinds) added to the leaked ones.
RECURSIVE Leak(_, _)
Leak(l, lost) ==
    IF lost = << >> THEN l
    ELSE Leak([ l EXCEPT ![Head(lost)] = @ + 1 ], Tail(lost))

\* The bytes of `len` elements of `esz` bytes each, counted up from `base`:
\* every byte differs, and the callers pass a base of their own to each call.
ElementBytes(base, len, esz) == [ i \in 0..(len * esz - 1) |-> base + i ]

ElemSizes == { 1, 2, 4 }

\* buffer_bundle.rs:21-68
NewBuffer(size, map_it, req, fail) ==
    /\ pc = "idle" /\ ops < MaxBufOps
    /\ bundle.buffer = "none"
    /\ LET r == BufferBundle_new(size, "VERTEX", map_it, req, fail)
       IN  /\ bundle' = r.bundle
           /\ ret' = r.ret
           /\ calls' = r.calls
           /\ leaked' = Leak(leaked, r.lost)
    /\ op' = "BufferBundle::new"
    /\ args' = [ size |-> size, map_it |-> map_it ]
    /\ ops' = ops + 1
    /\ UNCHANGED << adapter_vars, pc, stray, misuse, image_vars, pitch_vars >>

\* buffer_bundle.rs:78  the byte offset of `dest` from the mapped pointer.
update_buffer_dest(vertex_offset, esz) == vertex_offset * esz

\* buffer_bundle.rs:71-73  the assert! of update_buffer.
update_buffer_assert(b, len, esz, vertex_offset) ==
    b.requirements.size >= len * esz + vertex_offset

\* buffer_bundle.rs:70-84  update_buffer::<T>(verts, vertex_offset) with
\* size_of::<T>() = esz and verts.len() = len.  The assert! and the index
\* verts[0] panic; copy_nonoverlapping writes len * esz bytes from dest on,
\* inside the mapped region or not.  A write past the region is undefined:
\* it lands in whatever lies there (stray) or the process faults.
UpdateBuffer(len, esz, vertex_offset, fault) ==
    /\ pc = "idle" /\ ops < MaxBufOps
    /\ bundle.buffer # "none"
    /\ op' = "update_buffer"
    /\ args' = [ len |-> len, esz |-> esz, vertex_offset |-> vertex_offset,
                 verts |-> ElementBytes(64 * ops, len, esz) ]
    /\ ops' = ops + 1
    /\ calls' = << >>
    /\ LET dest  == update_buffer_dest(vertex_offset, esz)
           data  == ElementBytes(64 * ops, len, esz)
           range == { dest + i : i \in 0..(len * esz - 1) }
           out   == { k \in range : k >= bundle.requirements.size }
       IN  IF ~update_buffer_assert(bundle, len, esz, vertex_offset)
              \/ (bundle.mapped /\ len = 0)
           THEN /\ pc' = "panicked" /\ ret' = "panic"
                /\ UNCHANGED << bundle, stray, misuse >>
           ELSE IF ~bundle.mapped
           THEN /\ pc' = pc /\ ret' = "Ok"
                /\ UNCHANGED << bundle, stray, misuse >>
           ELSE /\ fault \in (IF out = {} THEN { FALSE } ELSE BOOLEAN)
                /\ bundle' = [ bundle EXCEPT !.bytes =
                      [ k \in DOMAIN @ |->
                          IF k \in range THEN data[k - dest] ELSE @[k] ] ]
                /\ stray' = IF fault THEN stray ELSE stray \cup out
                /\ pc' = IF fault THEN "panicked" ELSE pc
                /\ ret' = IF fault THEN "fault" ELSE "Ok"
                /\ misuse' = IF bundle.memory = "destroyed"
                             THEN misuse \cup { "write to freed memory" }
                             ELSE misuse
    /\ UNCHANGED << adapter_vars, leaked, image_vars, pitch_vars >>

\* buffer_bundle.rs:97-100
Flush(fail) ==
    /\ pc = "idle" /\ ops < MaxBufOps
    /\ bundle.buffer # "none"
    /\ op' = "flush"
    /\ args' = << >>
    /\ ops' = ops + 1
    /\ calls' = << Call("flush_mapped_memory_ranges", << >>) >>
    /\ ret' = IF fail THEN "Flush" ELSE "Ok"
    /\ misuse' = IF bundle.memory = "destroyed"
                 THEN misuse \cup { "flush of freed memory" } ELSE misuse
    /\ UNCHANGED << adapter_vars, pc, bundle, stray, leaked, image_vars, pitch_vars >>

\* A release that frees the memory before it destroys the buffer bound to it.
BufferBundle_manually_drop_memory_first(b) ==
    [ bundle |-> [ b EXCEPT !.buffer = "destroyed", !.memory = "destroyed" ],
      calls  |-> << Call("free_memory", << >>), Call("destroy_buffer", << >>) >>,
      misuse |-> IF b.buffer = "destroyed" \/ b.memory = "destroyed"
                 THEN { "buffer released twice" } ELSE {} ]

\* buffer_bundle.rs:91-95  manually_drop(&self, device): the value is read out
\* of the ManuallyDrop fields, not consumed, so nothing keeps a caller from
\* a second call.
BufferBundle_manually_drop(b) ==
    [ bundle |-> [ b EXCEPT !.buffer = "destroyed", !.memory = "destroyed" ],
      calls  |-> << Call("destroy_buffer", << >>), Call("free_memory", << >>) >>,
      misuse |-> IF b.buffer = "destroyed" \/ b.memory = "destroyed"
                 THEN { "buffer released twice" } ELSE {} ]

DropBuffer ==
    /\ pc = "idle" /\ ops < MaxBufOps
    /\ bundle.buffer # "none"
    /\ op' = "BufferBundle::manually_drop"
    /\ args' = << >>
    /\ ops' = ops + 1
    /\ LET r == BufferBundle_manually_drop(bundle)
       IN  /\ bundle' = r.bundle
           /\ calls' = r.calls
           /\ misuse' = misuse \cup r.misuse
    /\ ret' = "Ok"
    /\ UNCHANGED << adapter_vars, pc, stray, leaked, image_vars, pitch_vars >>

\* ------------------------------------------------- the staging buffer

\* A row loop that packs the rows, row y at y * row_size.
RECURSIVE copy_rows_packed(_, _, _, _, _, _, _)
copy_rows_packed(bytes, img, img_len, row_size, row_pitch, height, y) ==
    IF y >= height THEN [ panicked |-> FALSE, bytes |-> bytes ]
    ELSE copy_rows_packed([ k \in DOMAIN bytes |->
                              IF k >= y * row_size /\ k < (y + 1) * row_size
                              THEN img[k] ELSE bytes[k] ],
                          img, img_len, row_size, row_pitch, height, y + 1)

\* loaded_image.rs:227-232  the row loop from row y on, into the mapping
\* writer's slice `bytes` (requirements.size bytes).  Indexing img past its
\* length, or the writer past its length, panics; rows before it are written.
RECURSIVE copy_rows(_, _, _, _, _, _, _)
copy_rows(bytes, img, img_len, row_size, row_pitch, height, y) ==
    IF y >= height THEN [ panicked |-> FALSE, bytes |-> bytes ]
    ELSE IF (y + 1) * row_size > img_len
            \/ y * row_pitch + row_size > Cardinality(DOMAIN bytes)
    THEN [ panicked |-> TRUE, bytes |-> bytes ]
    ELSE copy_rows([ k \in DOMAIN bytes |->
                       IF k >= y * row_pitch /\ k < y * row_pitch + row_size
                       THEN img[y * row_size + (k - y * row_pitch)]
                       ELSE bytes[k] ],
                   img, img_len, row_size, row_pitch, height, y + 1)

\* loaded_image.rs:211  (row_pitch * height) as u64
required_bytes_of(width, height) == row_pitch_of(width, alignment) * height

\* loaded_image.rs:240  (row_pitch / size_of::<u32>()) as u32
buffer_width_of(width) == AsU32(row_pitch_of(width, alignment) \div 4)

\* loaded_image.rs:219-241  create_staging_buffer once BufferBundle::new
\* returned the bundle b with the device calls c.
create_staging_buffer_fill(b, c, img, img_len, width, height, fail) ==
    LET acquire == c \o << Call("acquire_mapping_writer", <<0, b.requirements.size>>) >>
        rows == copy_rows(b.bytes, img, img_len, row_size_of(width),
                          row_pitch_of(width, alignment), height, 0)
        written == [ b EXCEPT !.bytes = rows.bytes ]
    IN  IF fail = "acquire_mapping_writer"
        THEN [ ret |-> "AcquireMappingWriter", bundle |-> NoBundle, buffer_width |-> 0,
               lost |-> <<"buffer", "memory">>, calls |-> acquire ]
        ELSE IF rows.panicked
        THEN [ ret |-> "panic", bundle |-> written, buffer_width |-> 0,
               lost |-> <<"buffer", "memory">>, calls |-> acquire ]
        ELSE IF fail = "release_mapping_writer"
        THEN [ ret |-> "ReleaseMappingWriter", bundle |-> NoBundle, buffer_width |-> 0,
               lost |-> <<"buffer", "memory">>,
               calls |-> acquire \o << Call("release_mapping_writer", << >>) >> ]
        ELSE [ ret |-> "Ok", bundle |-> written,
               buffer_width |-> buffer_width_of(width), lost |-> << >>,
               calls |-> acquire \o << Call("release_mapping_writer", << >>) >> ]

\* loaded_image.rs:196-242  create_staging_buffer(adapter, device, img, width,
\* height) in a build with or without debug assertions, on a device that
\* answers get_buffer_requirements with required_bytes + pad bytes and
\* type_mask, and fails the call named fail.
create_staging_buffer(debug, img, img_len, width, height, pad, type_mask, fail) ==
    IF RowPitchPanics(debug, width, alignment)
    THEN [ ret |-> "panic", bundle |-> NoBundle, buffer_width |-> 0,
           lost |-> << >>, calls |-> << >> ]
    ELSE LET new == BufferBundle_new(required_bytes_of(width, height), "TRANSFER_SRC",
                        FALSE,
                        [ size |-> required_bytes_of(width, height) + pad,
                          type_mask |-> type_mask ],
                        fail)
         IN  IF new.ret # "Ok"
             THEN [ ret |-> new.ret, bundle |-> NoBundle, buffer_width |-> 0,
                    lost |-> new.lost, calls |-> new.calls ]
             ELSE create_staging_buffer_fill(new.bundle, new.calls, img, img_len,
                                             width, height, fail)

\* ---------------------------------------------------- the command buffer

Barrier(old_access, old_layout, new_access, new_layout, src_stage, dst_stage) ==
    [ cmd |-> "pipeline_barrier",
      old_access |-> old_access, old_layout |-> old_layout,
      new_access |-> new_access, new_layout |-> new_layout,
      src_stage |-> src_stage, dst_stage |-> dst_stage ]

\* A recording that leaves out the barrier to ShaderReadOnlyOptimal.
recorded_commands_unfinished(buffer_width, image_width, image_height, image_offset) ==
    << Barrier("empty", "Undefined", "TRANSFER_WRITE", "TransferDstOptimal",
               "TOP_OF_PIPE", "TRANSFER"),
       [ cmd |-> "copy_buffer_to_image",
         dst_layout |-> "TransferDstOptimal",
         buffer_offset |-> 0,
         buffer_width |-> buffer_width,
         buffer_height |-> image_height,
         image_offset |-> << 0, 0, 0 >>,
         image_extent |-> << image_width, image_height, 1 >> ] >>

\* loaded_image.rs:255-329  what load_staging_buffer_into_image_object records
\* between begin() and finish().  The copy's image_offset is the literal of
\* line 294; the parameter image_offset is not read.
recorded_commands(buffer_width, image_width, image_height, image_offset) ==
    << Barrier("empty", "Undefined", "TRANSFER_WRITE", "TransferDstOptimal",
               "TOP_OF_PIPE", "TRANSFER"),
       [ cmd |-> "copy_buffer_to_image",
         dst_layout |-> "TransferDstOptimal",
         buffer_offset |-> 0,
         buffer_width |-> buffer_width,
         buffer_height |-> image_height,
         image_offset |-> << 0, 0, 0 >>,
         image_extent |-> << image_width, image_height, 1 >> ],
       Barrier("TRANSFER_WRITE", "TransferDstOptimal", "SHADER_READ",
               "ShaderReadOnlyOptimal", "TRANSFER", "FRAGMENT_SHADER") >>

\* ------------------------------------------------------------ LoadedImage

\* A LoadedImage value (loaded_image.rs:18-26): the status of its five
\* handles, its requirements, and whether the caller holds it (`owned`) or it
\* is still the local `texture` of allocate_and_create.
NoTexture ==
    [ image |-> "none", memory |-> "none", image_view |-> "none",
      sampler |-> "none", descriptor_set |-> "none",
      requirements |-> [ size |-> 0, type_mask |-> 0 ], memory_type |-> 0,
      owned |-> FALSE ]

UndefinedTexel == << Uninit, Uninit, Uninit, Uninit >>

\* The image object behind the handle: its extent (image::Kind::D2 of
\* loaded_image.rs:44), the layout it is in, its texels.
NoImage ==
    [ width |-> 0, height |-> 0, layout |-> "Undefined",
      pixels |-> [ q \in {} |-> UndefinedTexel ] ]

NewImage(width, height) ==
    [ width |-> width, height |-> height, layout |-> "Undefined",
      pixels |-> [ q \in (0..(width - 1)) \X (0..(height - 1)) |-> UndefinedTexel ] ]

NoDescriptors == [ binding0 |-> "none", binding1 |-> "none", writes |-> 0 ]

\* loaded_image.rs:68-98  allocate_and_create from allocate_memory to
\* allocate_descriptor_set, the memory type being found.
allocate_and_create_rest(req, fail, id, c) ==
    LET alloc == c \o << Call("allocate_memory", <<id, req.size>>) >>
        bind  == alloc \o << Call("bind_image_memory", <<0>>) >>
        view  == bind \o << Call("create_image_view", << >>) >>
        samp  == view \o << Call("create_sampler", << >>) >>
        dset  == samp \o << Call("allocate_descriptor_set", << >>) >>
    IN  IF fail = "allocate_image_memory"
        THEN [ ret |-> "Allocate", texture |-> NoTexture, calls |-> alloc,
               lost |-> <<"image">> ]
        ELSE IF fail = "bind_image_memory"
        THEN [ ret |-> "Bind", texture |-> NoTexture, calls |-> bind,
               lost |-> <<"image", "memory">> ]
        ELSE IF fail = "create_image_view"
        THEN [ ret |-> "ImageView", texture |-> NoTexture, calls |-> view,
               lost |-> <<"image", "memory">> ]
        ELSE IF fail = "create_sampler"
        THEN [ ret |-> "Sampler", texture |-> NoTexture, calls |-> samp,
               lost |-> <<"image", "memory", "image_view">> ]
        ELSE IF fail = "allocate_descriptor_set"
        THEN [ ret |-> "DescriptorSet", texture |-> NoTexture, calls |-> dset,
               lost |-> <<"image", "memory", "image_view", "sampler">> ]
        ELSE [ ret |-> "Ok", calls |-> dset, lost |-> << >>,
               texture |-> [ image |-> "live", memory |-> "live",
                             image_view |-> "live", sampler |-> "live",
                             descriptor_set |-> "live",
                             requirements |-> req, memory_type |-> id,
                             owned |-> FALSE ] ]

\* loaded_image.rs:40-110  allocate_and_create up to the local `texture`, on
\* a device that answers get_image_requirements with req and fails the call
\* named fail.
allocate_and_create_handles(width, height, req, fail) ==
    IF fail = "create_image"
    THEN [ ret |-> "CreateImage", texture |-> NoTexture, lost |-> << >>,
           calls |-> << Call("create_image", <<width, height>>) >> ]
    ELSE LET c  == << Call("create_image", <<width, height>>),
                      Call("get_image_requirements", << req.size, req.type_mask >>) >>
             id == find_memory_type(memory_types, req.type_mask, {"DEVICE_LOCAL"}, 0)
         IN  IF id = NoMemoryType
             THEN [ ret |-> "MemoryId", texture |-> NoTexture, calls |-> c,
                    lost |-> <<"image">> ]
             ELSE allocate_and_create_rest(req, fail, id, c)

TextureHandles == <<"image", "memory", "image_view", "sampler", "descriptor_set">>

\* loaded_image.rs:164-170 and 255-339  edit_image up to wait_for_fence:
\* create_staging_buffer, the commands, create_fence(false), the submission.
\* ret is "submitted" when the call reached the wait.
upload_begin(debug, img, img_len, width, height, offset, pad, type_mask, fail) ==
    LET s == create_staging_buffer(debug, img, img_len, width, height, pad,
                                   type_mask, fail)
        rec == s.calls \o << Call("acquire_command_buffer", << >>),
                             Call("create_fence", << FALSE >>) >>
    IN  IF s.ret # "Ok"
        THEN [ ret |-> s.ret, bundle |-> s.bundle, calls |-> s.calls,
               lost |-> s.lost, commands |-> << >> ]
        ELSE IF fail = "create_fence"
        THEN [ ret |-> "UploadFence", bundle |-> s.bundle, calls |-> rec,
               lost |-> <<"buffer", "memory", "command_buffer">>,
               commands |-> recorded_commands(s.buffer_width, width, height,
                                              << offset[1], offset[2], 0 >>) ]
        ELSE [ ret |-> "submitted", bundle |-> s.bundle, lost |-> << >>,
               calls |-> rec \o << Call("submit_without_semaphores", << >>),
                                   Call("wait_for_fence", << >>) >>,
               commands |-> recorded_commands(s.buffer_width, width, height,
                                              << offset[1], offset[2], 0 >>) ]

\* ------------------------------------------------------ the transfer queue

\* A pipeline barrier on the image: the layout becomes the new one; an old
\* layout of Undefined lets the device discard the contents.
exec_barrier(im, b, discard) ==
    [ im EXCEPT !.layout = b.new_layout,
                !.pixels = IF b.old_layout = "Undefined" /\ discard
                           THEN [ q \in DOMAIN @ |-> UndefinedTexel ] ELSE @ ]

SourceByte(src, k) == IF k \in DOMAIN src THEN src[k] ELSE Uninit

\* The texels of the copy region, row by row from the buffer: texel (x, y) of
\* the region is the four bytes at buffer_offset + (y * buffer_width + x) * 4.
exec_copy(im, c, src) ==
    LET ox == c.image_offset[1]
        oy == c.image_offset[2]
        at(q) == c.buffer_offset + ((q[2] - oy) * c.buffer_width + (q[1] - ox)) * 4
    IN  [ im EXCEPT !.pixels =
            [ q \in DOMAIN @ |->
                IF /\ q[1] >= ox /\ q[1] < ox + c.image_extent[1]
                   /\ q[2] >= oy /\ q[2] < oy + c.image_extent[2]
                THEN << SourceByte(src, at(q)), SourceByte(src, at(q) + 1),
                        SourceByte(src, at(q) + 2), SourceByte(src, at(q) + 3) >>
                ELSE @[q] ] ]

\* What the device objects to in one command on the image im.
exec_misuse(im, c) ==
    IF c.cmd = "pipeline_barrier"
    THEN IF c.old_layout \in { "Undefined", im.layout } THEN {}
         ELSE { "barrier from a layout the image is not in" }
    ELSE ( IF c.dst_layout = im.layout THEN {}
           ELSE { "copy to an image not in the copy's layout" } )
         \cup
         ( IF /\ c.image_offset[1] + c.image_extent[1] <= im.width
              /\ c.image_offset[2] + c.image_extent[2] <= im.height
           THEN {} ELSE { "copy outside the image" } )

\* The commands of one submission, in order, on the image.
RECURSIVE exec_commands(_, _, _, _)
exec_commands(st, cmds, src, discard) ==
    IF cmds = << >> THEN st
    ELSE LET c == Head(cmds)
         IN  exec_commands(
                 [ image  |-> IF c.cmd = "pipeline_barrier"
                              THEN exec_barrier(st.image, c, discard)
                              ELSE exec_copy(st.image, c, src),
                   misuse |-> st.misuse \cup exec_misuse(st.image, c) ],
                 Tail(cmds), src, discard)

NewFails == { "none", "create_buffer", "allocate_memory", "bind_buffer_memory",
              "map_memory" }

InitCaller ==
    /\ pc = "idle" /\ op = "none" /\ args = << >> /\ ret = "none"
    /\ calls = << >> /\ ops = 0
    /\ misuse = {} /\ leaked = [ k \in HandleKinds |-> 0 ]

InitBuffer == bundle = NoBundle /\ stray = {}

InitPitch == p_width = 0 /\ p_row_pitch = [ state |-> "none", value |-> 0 ]

InitImage ==
    /\ texture = NoTexture /\ image_object = NoImage /\ descriptors = NoDescriptors
    /\ staging_bundle = NoBundle
    /\ cmd_buffer = [ state |-> "none", commands |-> << >> ]
    /\ upload_fence = "none"
    /\ queue = << >>

InitB ==
    /\ memory_types = << { "DEVICE_LOCAL" }, { "CPU_VISIBLE" } >>
    /\ alignment = 1
    /\ debug_assertions = FALSE
    /\ InitCaller /\ InitBuffer /\ InitImage /\ InitPitch

NextB ==
    \/ \E size \in 1..MaxBufSize, map_it \in BOOLEAN, fail \in NewFails :
          \E req \in BufferRequirements(size) : NewBuffer(size, map_it, req, fail)
    \/ \E len \in 0..MaxVerts, esz \in ElemSizes, off \in 0..MaxBufSize,
          fault \in BOOLEAN :
          UpdateBuffer(len, esz, off, fault)
    \/ \E fail \in BOOLEAN : Flush(fail)
    \/ DropBuffer

SpecBuffer == InitB /\ [][NextB]_vars

\* --------------------------------------------------- LoadedImage, the calls

\* What goes wrong in an upload: the device call that fails, or the caller's
\* img slice being one byte short of 4 * width * height ("short_img").
UploadFails == { "none", "create_buffer", "allocate_memory", "bind_buffer_memory",
                 "acquire_mapping_writer", "release_mapping_writer", "create_fence",
                 "short_img" }

CreateFails == { "create_image", "allocate_image_memory", "bind_image_memory",
                 "create_image_view", "create_sampler", "allocate_descriptor_set" }

\* The caller's pixel data: 4 * width * height bytes that differ from each
\* other and from those of the calls before, or one byte short of it.
ImageBytes(width, height) == ElementBytes(64 * ops, width * height, 4)
ImageLen(fail, width, height) ==
    4 * width * height - (IF fail = "short_img" THEN 1 ELSE 0)

\* What the caller is left with when the upload did not reach the wait.
UploadStopped(u) ==
    /\ pc' = IF u.ret = "panic" THEN "panicked" ELSE "idle"
    /\ ret' = u.ret
    /\ staging_bundle' = u.bundle
    /\ cmd_buffer' = [ state |-> IF u.commands = << >> THEN "none" ELSE "executable",
                       commands |-> u.commands ]
    /\ upload_fence' = "none"
    /\ queue' = queue

\* The upload reached wait_for_fence: the submission is on the queue.
UploadSubmitted(u) ==
    /\ pc' = "waiting"
    /\ ret' = "none"
    /\ staging_bundle' = u.bundle
    /\ cmd_buffer' = [ state |-> "pending", commands |-> u.commands ]
    /\ upload_fence' = "unsignaled"
    /\ queue' = Append(queue, [ commands |-> u.commands, source |-> u.bundle.bytes ])

\* loaded_image.rs:29-123  allocate_and_create up to the wait of its upload.
\* The model creates one Image Resource, with the caller's first call.
AllocateAndCreate(width, height, req, fail, pad, type_mask) ==
    /\ pc = "idle" /\ ops = 0
    /\ op' = "allocate_and_create"
    /\ args' = [ width |-> width, height |-> height, offset |-> << 0, 0 >>,
                 img |-> ImageBytes(width, height) ]
    /\ ops' = ops + 1
    /\ descriptors' = NoDescriptors
    /\ LET a == allocate_and_create_handles(width, height, req, fail)
           u == upload_begin(debug_assertions, ImageBytes(width, height),
                             ImageLen(fail, width, height), width, height,
                             << 0, 0 >>, pad, type_mask, fail)
       IN  IF a.ret # "Ok"
           THEN /\ pc' = "idle" /\ ret' = a.ret /\ calls' = a.calls
                /\ leaked' = Leak(leaked, a.lost)
                /\ UNCHANGED << texture, image_object, staging_bundle, cmd_buffer,
                                upload_fence, queue >>
           ELSE IF u.ret # "submitted"
           THEN /\ UploadStopped(u)
                /\ calls' = a.calls \o u.calls
                /\ leaked' = Leak(leaked, TextureHandles \o u.lost)
                /\ UNCHANGED << texture, image_object >>
           ELSE /\ UploadSubmitted(u)
                /\ calls' = a.calls \o u.calls
                /\ texture' = a.texture
                /\ image_object' = NewImage(width, height)
                /\ leaked' = leaked
    /\ UNCHANGED << adapter_vars, buffer_vars, misuse, pitch_vars >>

\* loaded_image.rs:151-187  edit_image up to the wait of its upload.
EditImage(width, height, offset, fail, pad, type_mask) ==
    /\ pc = "idle" /\ ops < MaxOps
    /\ texture.owned
    /\ op' = "edit_image"
    /\ args' = [ width |-> width, height |-> height, offset |-> offset,
                 img |-> ImageBytes(width, height) ]
    /\ ops' = ops + 1
    /\ LET u == upload_begin(debug_assertions, ImageBytes(width, height),
                             ImageLen(fail, width, height), width, height,
                             offset, pad, type_mask, fail)
       IN  /\ calls' = u.calls
           /\ IF u.ret # "submitted"
              THEN UploadStopped(u) /\ leaked' = Leak(leaked, u.lost)
              ELSE UploadSubmitted(u) /\ leaked' = leaked
    /\ UNCHANGED << adapter_vars, buffer_vars, misuse, texture, image_object,
                    descriptors, pitch_vars >>

\* A queue that executes its submissions and signals no fence.
QueueExecute_never_signals(discard) ==
    /\ queue # << >>
    /\ LET job == Head(queue)
           st  == exec_commands([ image |-> image_object, misuse |-> {} ],
                                job.commands, job.source, discard)
       IN  IF texture.image = "live"
           THEN /\ image_object' = st.image
                /\ misuse' = misuse \cup st.misuse
           ELSE /\ image_object' = image_object
                /\ misuse' = misuse
    /\ queue' = Tail(queue)
    /\ UNCHANGED << adapter_vars, pc, op, args, ret, calls, ops, buffer_vars, leaked,
                    texture, descriptors, staging_bundle, pitch_vars, upload_fence,
                    cmd_buffer >>

\* The transfer queue executes its oldest submission and signals the fence
\* submitted with it.  The fence of a call that gave up waiting is nobody's;
\* the call that waits submitted last.
QueueExecute(discard) ==
    /\ queue # << >>
    /\ LET job == Head(queue)
           st  == exec_commands([ image |-> image_object, misuse |-> {} ],
                                job.commands, job.source, discard)
       IN  IF texture.image = "live"
           THEN /\ image_object' = st.image
                /\ misuse' = misuse \cup st.misuse
           ELSE /\ image_object' = image_object
                /\ misuse' = IF texture.image = "destroyed"
                             THEN misuse \cup { "transfer to a destroyed image" }
                             ELSE misuse
    /\ queue' = Tail(queue)
    /\ upload_fence' = IF pc = "waiting" /\ Len(queue) = 1 THEN "signaled"
                       ELSE upload_fence
    /\ cmd_buffer' = IF pc = "waiting" /\ Len(queue) = 1
                     THEN [ cmd_buffer EXCEPT !.state = "executed" ] ELSE cmd_buffer
    /\ UNCHANGED << adapter_vars, pc, op, args, ret, calls, ops, buffer_vars, leaked,
                    texture, descriptors, staging_bundle, pitch_vars >>

\* A write that binds the image view in the layout of the transfer.
written_descriptors_transfer_layout ==
    [ binding0 |-> << "image_view", "TransferDstOptimal" >>,
      binding1 |-> "sampler", writes |-> descriptors.writes + 1 ]

\* loaded_image.rs:126-142  write_descriptor_sets
written_descriptors ==
    [ binding0 |-> << "image_view", "ShaderReadOnlyOptimal" >>,
      binding1 |-> "sampler", writes |-> descriptors.writes + 1 ]

\* A return that writes the descriptor set after every upload.
ReturnFromWait_writes_always ==
    /\ pc' = "idle"
    /\ ret' = "Ok"
    /\ upload_fence' = "destroyed"
    /\ cmd_buffer' = [ cmd_buffer EXCEPT !.state = "freed" ]
    /\ LET d == BufferBundle_manually_drop(staging_bundle)
       IN  /\ staging_bundle' = d.bundle
           /\ misuse' = misuse \cup d.misuse
           /\ calls' = calls \o << Call("destroy_fence", << >>),
                                   Call("free_command_buffer", << >>) >>
                             \o d.calls
                             \o << Call("write_descriptor_sets", << >>) >>
    /\ descriptors' = written_descriptors
    /\ texture' = [ texture EXCEPT !.owned = TRUE ]
    /\ UNCHANGED << adapter_vars, op, args, ops, buffer_vars, leaked, image_object,
                    queue, pitch_vars >>

\* loaded_image.rs:341-346, 189-192 and 125-147  after wait_for_fence: the
\* rest of load_staging_buffer_into_image_object, of edit_image and, in
\* allocate_and_create, the descriptor write and the return of the texture.
ReturnFromWait ==
    /\ pc' = "idle"
    /\ ret' = "Ok"
    /\ upload_fence' = "destroyed"
    /\ cmd_buffer' = [ cmd_buffer EXCEPT !.state = "freed" ]
    /\ LET d == BufferBundle_manually_drop(staging_bundle)
       IN  /\ staging_bundle' = d.bundle
           /\ misuse' = misuse \cup d.misuse
           /\ calls' = calls \o << Call("destroy_fence", << >>),
                                   Call("free_command_buffer", << >>) >>
                             \o d.calls
                             \o ( IF op = "allocate_and_create"
                                  THEN << Call("write_descriptor_sets", << >>) >>
                                  ELSE << >> )
    /\ IF op = "allocate_and_create"
       THEN /\ descriptors' = written_descriptors
            /\ texture' = [ texture EXCEPT !.owned = TRUE ]
       ELSE UNCHANGED << descriptors, texture >>
    /\ UNCHANGED << adapter_vars, op, args, ops, buffer_vars, leaked, image_object,
                    queue, pitch_vars >>

\* A wait that returns whether the fence is signaled or not.
WaitReturns_unsignaled ==
    /\ pc = "waiting"
    /\ ReturnFromWait

\* loaded_image.rs:338-340  wait_for_fence(&upload_fence, u64::MAX) returns
\* once the fence is signaled.
WaitReturns ==
    /\ pc = "waiting"
    /\ upload_fence = "signaled"
    /\ ReturnFromWait

\* A failing wait after which the caller still gets the texture.
WaitFails_keeps_texture ==
    /\ pc = "waiting"
    /\ pc' = "idle"
    /\ ret' = "WaitForFence"
    /\ leaked' = Leak(leaked, <<"fence", "command_buffer", "buffer", "memory">>)
    /\ texture' = [ texture EXCEPT !.owned = TRUE ]
    /\ UNCHANGED << adapter_vars, op, args, calls, ops, buffer_vars, misuse,
                    descriptors, staging_bundle, cmd_buffer, upload_fence, queue,
                    pitch_vars, image_object >>

\* loaded_image.rs:338-340  wait_for_fence returns Err(OomOrDeviceLost): `?`
\* returns WaitForFence from load_staging_buffer_into_image_object, from
\* edit_image and from allocate_and_create, which drops its local texture.
WaitFails ==
    /\ pc = "waiting"
    /\ pc' = "idle"
    /\ ret' = "WaitForFence"
    /\ leaked' = Leak(leaked, <<"fence", "command_buffer", "buffer", "memory">>
                              \o ( IF op = "allocate_and_create" THEN TextureHandles
                                   ELSE << >> ))
    /\ IF op = "allocate_and_create"
       THEN texture' = NoTexture /\ image_object' = NoImage
       ELSE UNCHANGED << texture, image_object >>
    /\ UNCHANGED << adapter_vars, op, args, calls, ops, buffer_vars, misuse,
                    descriptors, staging_bundle, cmd_buffer, upload_fence, queue,
                    pitch_vars >>

\* A release that frees the memory before the handles bound to it.
LoadedImage_manually_drop_memory_first(t) ==
    [ texture |-> [ t EXCEPT !.sampler = "destroyed", !.image = "destroyed",
                             !.image_view = "destroyed", !.memory = "destroyed" ],
      calls   |-> << Call("free_memory", << >>), Call("destroy_sampler", << >>),
                     Call("destroy_image", << >>),
                     Call("destroy_image_view", << >>) >>,
      misuse  |-> IF t.image = "destroyed" THEN { "image released twice" } ELSE {} ]

\* loaded_image.rs:349-355  manually_drop(&self, device)
LoadedImage_manually_drop(t) ==
    [ texture |-> [ t EXCEPT !.sampler = "destroyed", !.image = "destroyed",
                             !.image_view = "destroyed", !.memory = "destroyed" ],
      calls   |-> << Call("destroy_sampler", << >>), Call("destroy_image", << >>),
                     Call("destroy_image_view", << >>), Call("free_memory", << >>) >>,
      misuse  |-> IF t.image = "destroyed" THEN { "image released twice" } ELSE {} ]

ReleaseImage ==
    /\ pc = "idle" /\ ops < MaxOps
    /\ texture.owned
    /\ op' = "LoadedImage::manually_drop"
    /\ args' = << >>
    /\ ops' = ops + 1
    /\ ret' = "Ok"
    /\ LET r == LoadedImage_manually_drop(texture)
       IN  /\ texture' = r.texture
           /\ calls' = r.calls
           /\ misuse' = misuse \cup r.misuse
                          \cup ( IF queue # << >> /\ texture.image = "live"
                                 THEN { "image destroyed with a transfer pending" }
                                 ELSE {} )
    /\ UNCHANGED << adapter_vars, pc, buffer_vars, leaked, image_object, descriptors,
                    staging_bundle, cmd_buffer, upload_fence, queue, pitch_vars >>

\* The extents and offsets the caller passes, the type masks and the padding
\* of the requirements the device answers with.
Extents == { << 1, 1 >>, << 1, 2 >>, << 2, 2 >> }
Offsets == { << 0, 0 >>, << 1, 1 >> }
Pads == { 0, MaxPad }

\* The type masks the device answers with on the adapter of Init: one that
\* has the type the call needs, and, where no device call fails, one that
\* has not.
ImageMasks(fail) == IF fail = "none" THEN { 1, 2 } ELSE { 1 }
BufferMasks(fail) == IF fail = "none" THEN { 1, 2 } ELSE { 2 }

Init ==
    /\ memory_types = << { "DEVICE_LOCAL" }, { "CPU_VISIBLE" } >>
    /\ alignment \in { 1, Pow2(MaxAlignExp) }
    /\ debug_assertions = FALSE
    /\ InitCaller /\ InitBuffer /\ InitImage /\ InitPitch

Next ==
    \/ \E e \in Extents, fail \in UploadFails \cup CreateFails, pad \in Pads :
          \E image_mask \in ImageMasks(fail), type_mask \in BufferMasks(fail) :
             AllocateAndCreate(e[1], e[2],
                               [ size |-> 4 * e[1] * e[2] + pad,
                                 type_mask |-> image_mask ],
                               fail, pad, type_mask)
    \/ \E e \in Extents, offset \in Offsets, fail \in UploadFails, pad \in Pads :
          \E type_mask \in BufferMasks(fail) :
             EditImage(e[1], e[2], offset, fail, pad, type_mask)
    \/ \E discard \in BOOLEAN : QueueExecute(discard)
    \/ WaitReturns
    \/ WaitFails
    \/ ReleaseImage

Spec == Init /\ [][Next]_vars

\* The transfer queue gets to execute what is submitted to it, and
\* wait_for_fence (loaded_image.rs:338-340) returns once its fence is signaled.
Fairness ==
    /\ WF_vars(\E discard \in BOOLEAN : QueueExecute(discard))
    /\ WF_vars(WaitReturns)

SpecLive == Init /\ [][Next]_vars /\ Fairness

\* ----------------------------------------- memory types, on every adapter

InitSelect ==
    /\ memory_types \in MemoryTypeTables
    /\ alignment = 1
    /\ debug_assertions = FALSE
    /\ InitCaller /\ InitBuffer /\ InitImage /\ InitPitch

NextSelect ==
    \/ \E fail \in { "none", "allocate_memory" }, type_mask \in TypeMasks :
          NewBuffer(1, TRUE, [ size |-> 1, type_mask |-> type_mask ], fail)
    \/ \E fail \in { "none", "allocate_image_memory", "allocate_memory" },
          image_mask \in TypeMasks, type_mask \in TypeMasks :
          AllocateAndCreate(1, 1, [ size |-> 4, type_mask |-> image_mask ],
                            fail, 0, type_mask)
    \/ \E discard \in BOOLEAN : QueueExecute(discard)
    \/ WaitReturns
    \/ WaitFails

SpecSelect == InitSelect /\ [][NextSelect]_vars

\* -------------------------------------------------- the row pitch, alone

\* loaded_image.rs:204-209  the row pitch of create_staging_buffer for
\* p_width texels.
ComputeRowPitch ==
    /\ p_row_pitch.state = "none"
    /\ p_row_pitch' =
         IF RowPitchPanics(debug_assertions, p_width, alignment)
         THEN [ state |-> "panic", value |-> 0 ]
         ELSE [ state |-> "computed", value |-> row_pitch_of(p_width, alignment) ]
    /\ UNCHANGED << adapter_vars, pc, op, args, ret, calls, ops, buffer_vars, misuse,
                    leaked, image_vars, p_width >>

InitRowPitch ==
    /\ memory_types = << >>
    /\ alignment \in Alignments
    /\ debug_assertions \in BOOLEAN
    /\ InitCaller /\ InitBuffer /\ InitImage
    /\ p_width \in 0..MaxPitchWidth
    /\ p_row_pitch = [ state |-> "none", value |-> 0 ]

SpecPitch == InitRowPitch /\ [][ComputeRowPitch]_vars

\* ------------------------------------------------------------- the claims

\* Memory type j of the adapter has its bit set in `mask` and every property
\* of `required`.
TypeMatches(j, mask, required) ==
    /\ (mask \div Pow2(j)) % 2 = 1
    /\ \A q \in required : q \in memory_types[j + 1]

HasMatch(mask, required) ==
    \E j \in 0..(Len(memory_types) - 1) : TypeMatches(j, mask, required)

IsLowestMatch(id, mask, required) ==
    /\ id \in 0..(Len(memory_types) - 1)
    /\ TypeMatches(id, mask, required)
    /\ \A j \in 0..(id - 1) : ~TypeMatches(j, mask, required)

IsRequirements(c) ==
    c.call \in { "get_buffer_requirements", "get_image_requirements" }

\* What Buffer create requires of the type (host-visible) and what
\* allocateAndCreate requires of it (device-local).
RequiredOf(c) ==
    IF c.call = "get_buffer_requirements" THEN { "CPU_VISIBLE" }
    ELSE { "DEVICE_LOCAL" }

\* C1: whenever the requirements a buffer or an image got from the device
\* leave at least one memory type whose bit is set in the type mask and whose
\* properties include the required ones, the next device call allocates
\* memory of the lowest such type, and the resource that comes out of the
\* call holds memory of that type.
C1_LowestMatchingType ==
    /\ \A i \in DOMAIN calls :
          ( IsRequirements(calls[i])
            /\ HasMatch(calls[i].arg[2], RequiredOf(calls[i])) )
          => /\ i < Len(calls)
             /\ calls[i + 1].call = "allocate_memory"
             /\ IsLowestMatch(calls[i + 1].arg[1], calls[i].arg[2],
                               RequiredOf(calls[i]))
    /\ bundle.memory = "live"
         => IsLowestMatch(bundle.memory_type, bundle.requirements.type_mask,
                          { "CPU_VISIBLE" })
    /\ staging_bundle.memory = "live"
         => IsLowestMatch(staging_bundle.memory_type,
                          staging_bundle.requirements.type_mask, { "CPU_VISIBLE" })
    /\ texture.memory = "live"
         => IsLowestMatch(texture.memory_type, texture.requirements.type_mask,
                          { "DEVICE_LOCAL" })

\* A buffer and an image both got the second type although both bits were
\* set: the first type lacks the property.
C1_Witness ==
    /\ op = "BufferBundle::new" /\ ret = "Ok"
    /\ bundle.requirements.type_mask = 3 /\ bundle.memory_type = 1
    /\ texture.owned
    /\ texture.requirements.type_mask = 3 /\ texture.memory_type = 1

\* C2: when no memory type has its bit set in the type mask and the required
\* properties, the call fails with MemoryId (MemoryTypeNotFound) right there:
\* the query of the requirements, which follows the creation of the buffer
\* or image, is the last device call, so no memory is allocated, bound or
\* mapped and nothing is tried again.
C2_NoTypeNoAllocation ==
    \A i \in DOMAIN calls :
        ( IsRequirements(calls[i])
          /\ ~HasMatch(calls[i].arg[2], RequiredOf(calls[i])) )
        => /\ ret = "MemoryId" /\ pc = "idle"
           /\ i = Len(calls)
           /\ calls[i - 1].call \in { "create_buffer", "create_image" }
           /\ \A k \in (i - 1)..Len(calls) :
                 calls[k].call \notin { "allocate_memory", "bind_buffer_memory",
                                        "bind_image_memory", "map_memory" }
           /\ op = "BufferBundle::new" => bundle = NoBundle
           /\ op = "allocate_and_create" => texture = NoTexture

\* allocateAndCreate found no device-local type, then Buffer create found no
\* host-visible one.
C2_Witness ==
    /\ op = "BufferBundle::new" /\ ret = "MemoryId" /\ Len(calls) = 2
    /\ leaked["image"] = 1 /\ leaked["buffer"] = 1 /\ leaked["memory"] = 0

\* C3: for every width and every pitch alignment that is a power of two, the
\* row pitch create_staging_buffer computes is at least 4 * width and a
\* multiple of the alignment.
C3_RowPitchCoversRow ==
    p_row_pitch.state = "computed"
    => /\ p_row_pitch.value >= 4 * p_width
       /\ p_row_pitch.value % alignment = 0

IsUpload == op \in { "edit_image", "allocate_and_create" }

Called(name) == \E i \in DOMAIN calls : calls[i].call = name

\* The texel at (x, y) of tightly packed pixel data `width` texels wide.
TexelOf(img, width, x, y) ==
    << img[4 * (y * width + x)], img[4 * (y * width + x) + 1],
       img[4 * (y * width + x) + 2], img[4 * (y * width + x) + 3] >>

InRegion(q, offset, width, height) ==
    /\ q[1] >= offset[1] /\ q[1] < offset[1] + width
    /\ q[2] >= offset[2] /\ q[2] < offset[2] + height

\* C4: when editRegion returns, the copy it recorded has destination offset
\* (x, y, 0) and extent (w, h, 1), the image holds the patch in
\* [x, x+w) x [y, y+h), and every pixel outside it is what it was: here, on
\* the first edit of an image, the pixel data the image was created from.
C4_PatchAtOffset ==
    ( /\ op = "edit_image" /\ pc = "idle" /\ ret = "Ok" /\ ops = 2
      /\ texture.image = "live"
      /\ args.offset[1] + args.width <= image_object.width
      /\ args.offset[2] + args.height <= image_object.height )
    => /\ cmd_buffer.commands[2].image_offset
            = << args.offset[1], args.offset[2], 0 >>
       /\ cmd_buffer.commands[2].image_extent = << args.width, args.height, 1 >>
       /\ \A q \in DOMAIN image_object.pixels :
             image_object.pixels[q] =
               IF InRegion(q, args.offset, args.width, args.height)
               THEN TexelOf(args.img, args.width, q[1] - args.offset[1],
                            q[2] - args.offset[2])
               ELSE TexelOf(ElementBytes(0, image_object.width * image_object.height, 4),
                            image_object.width, q[1], q[2])

\* C5: an upload call that created its staging buffer has destroyed the
\* buffer and freed its memory when it returns, with success or with an error.
C5_StagingReleased ==
    ( pc = "idle" /\ IsUpload /\ Called("acquire_mapping_writer") )
    => Called("destroy_buffer") /\ Called("free_memory")

BarrierToTransferDst ==
    [ cmd |-> "pipeline_barrier",
      old_access |-> "empty", old_layout |-> "Undefined",
      new_access |-> "TRANSFER_WRITE", new_layout |-> "TransferDstOptimal",
      src_stage |-> "TOP_OF_PIPE", dst_stage |-> "TRANSFER" ]

BarrierToShaderRead ==
    [ cmd |-> "pipeline_barrier",
      old_access |-> "TRANSFER_WRITE", old_layout |-> "TransferDstOptimal",
      new_access |-> "SHADER_READ", new_layout |-> "ShaderReadOnlyOptimal",
      src_stage |-> "TRANSFER", dst_stage |-> "FRAGMENT_SHADER" ]

IsUploadSequence(cmds) ==
    /\ Len(cmds) = 3
    /\ cmds[1] = BarrierToTransferDst
    /\ cmds[2].cmd = "copy_buffer_to_image"
    /\ cmds[2].dst_layout = "TransferDstOptimal"
    /\ cmds[3] = BarrierToShaderRead

\* C6: the commands of every upload are the barrier Undefined ->
\* TransferDstOptimal (none -> TransferWrite, TopOfPipe -> Transfer), one
\* copy from the staging buffer, and the barrier TransferDstOptimal ->
\* ShaderReadOnlyOptimal (TransferWrite -> ShaderRead, Transfer ->
\* FragmentShader), in this order and nothing else; and when an upload call
\* has returned success the image is in layout ShaderReadOnlyOptimal.
C6_UploadCommands ==
    /\ cmd_buffer.commands # << >> => IsUploadSequence(cmd_buffer.commands)
    /\ \A i \in DOMAIN queue : IsUploadSequence(queue[i].commands)
    /\ pc = "waiting"
         => /\ IsUploadSequence(cmd_buffer.commands)
            /\ upload_fence = "unsignaled"
                 => /\ queue # << >>
                    /\ queue[Len(queue)].commands = cmd_buffer.commands
                    /\ queue[Len(queue)].source = staging_bundle.bytes
    /\ ( pc = "idle" /\ IsUpload /\ ret = "Ok" /\ texture.image = "live" )
         => image_object.layout = "ShaderReadOnlyOptimal"

\* An edit has returned success.
C6_Witness ==
    /\ op = "edit_image" /\ pc = "idle" /\ ret = "Ok"
    /\ texture.image = "live"
    /\ image_object.layout = "ShaderReadOnlyOptimal"
    /\ Len(cmd_buffer.commands) = 3

CountCalls(log, name) == Cardinality({ i \in DOMAIN log : log[i].call = name })

\* C7: an upload creates its fence unsignaled and submits its command buffer
\* once, with that fence and without semaphores, before it waits; it returns
\* success only from a signaled fence; and the fence is destroyed, the
\* command buffer freed and the staging buffer released only in a step that
\* starts with the fence signaled.
C7_WaitBeforeRelease ==
    [][ /\ ( pc = "idle" /\ pc' = "waiting" )
             => /\ upload_fence' = "unsignaled"
                /\ CountCalls(calls', "create_fence") = 1
                /\ CountCalls(calls', "submit_without_semaphores") = 1
                /\ \A i \in DOMAIN calls' :
                      calls'[i].call = "create_fence" => calls'[i].arg = << FALSE >>
                /\ calls'[Len(calls')].call = "wait_for_fence"
                /\ calls'[Len(calls') - 1].call = "submit_without_semaphores"
        /\ ( pc = "waiting" /\ pc' = "idle" /\ ret' = "Ok" )
             => upload_fence = "signaled"
        /\ ( upload_fence' = "destroyed" /\ upload_fence # "destroyed" )
             => upload_fence = "signaled"
        /\ ( cmd_buffer'.state = "freed" /\ cmd_buffer.state # "freed" )
             => upload_fence = "signaled"
        /\ ( staging_bundle'.buffer = "destroyed" /\ staging_bundle.buffer = "live" )
             => upload_fence = "signaled"
        /\ ( pc = "waiting" /\ upload_fence = "unsignaled" )
             => /\ staging_bundle.buffer = "live" /\ staging_bundle.memory = "live"
                /\ cmd_buffer.state = "pending"
      ]_vars

\* An upload has returned success, its fence destroyed, its command buffer
\* freed and its staging buffer released.
C7_Witness ==
    /\ IsUpload /\ pc = "idle" /\ ret = "Ok"
    /\ upload_fence = "destroyed"
    /\ cmd_buffer.state = "freed"
    /\ staging_bundle.buffer = "destroyed" /\ staging_bundle.memory = "destroyed"

\* C8: an in-bounds update(data, offset) of a mapped buffer leaves exactly
\* the bytes of data in the byte range [offset, offset + len * elementSize)
\* of the mapped region and every other byte of the region as it was, for
\* every element size.
C8_UpdateRoundTrip ==
    [][ ( /\ op' = "update_buffer" /\ ops' = ops + 1 /\ ret' = "Ok"
          /\ bundle.mapped /\ bundle.memory = "live" )
        => bundle'.bytes =
             [ k \in DOMAIN bundle.bytes |->
                 IF /\ k >= args'.vertex_offset
                    /\ k < args'.vertex_offset + args'.len * args'.esz
                 THEN args'.verts[k - args'.vertex_offset]
                 ELSE bundle.bytes[k] ]
      ]_vars

\* C9: a call of update panics, writing nothing, whenever
\* offset + len * elementSize > requirements.size, and a call that does not
\* panic writes no byte outside [0, requirements.size) of the mapped region.
C9_UpdateInsideRegion ==
    /\ stray = {}
    /\ op = "update_buffer"
         => /\ ret \in { "Ok", "panic" }
            /\ args.vertex_offset + args.len * args.esz > bundle.requirements.size
                 => ret = "panic"

\* C10: the release of an image makes four device calls: destroy sampler,
\* destroy image, destroy image view, free memory, in this order, so the
\* memory goes last; the descriptor set is as the creation left it.
C10_ImageReleaseOrder ==
    op = "LoadedImage::manually_drop"
    => /\ Len(calls) = 4
       /\ calls[1].call = "destroy_sampler"
       /\ calls[2].call = "destroy_image"
       /\ calls[3].call = "destroy_image_view"
       /\ calls[4].call = "free_memory"
       /\ texture.sampler = "destroyed" /\ texture.image = "destroyed"
       /\ texture.image_view = "destroyed" /\ texture.memory = "destroyed"
       /\ texture.descriptor_set = "live"
       /\ descriptors = [ binding0 |-> << "image_view", "ShaderReadOnlyOptimal" >>,
                          binding1 |-> "sampler", writes |-> 1 ]

\* An image has been created and released.
C10_Witness ==
    /\ op = "LoadedImage::manually_drop" /\ ret = "Ok"
    /\ texture.owned /\ texture.memory = "destroyed"

CallNames(log) == [ i \in DOMAIN log |-> log[i].call ]

\* The calls of `log` whose name is in `names`, in the order of the log.
RECURSIVE OnlyCalls(_, _)
OnlyCalls(log, names) ==
    IF log = << >> THEN << >>
    ELSE ( IF Head(log).call \in names THEN << Head(log).call >> ELSE << >> )
         \o OnlyCalls(Tail(log), names)

ReleaseCalls ==
    { "destroy_buffer", "free_memory", "destroy_image", "destroy_image_view",
      "destroy_sampler", "destroy_fence", "free_command_buffer",
      "free_descriptor_set" }

\* C11: the release of a buffer makes two device calls and no other: it
\* destroys the buffer, then frees its memory; an upload that releases its
\* staging buffer makes the same two calls, next to each other and once.
C11_BufferReleaseOrder ==
    /\ op = "BufferBundle::manually_drop"
         => /\ CallNames(calls) = << "destroy_buffer", "free_memory" >>
            /\ bundle.buffer = "destroyed" /\ bundle.memory = "destroyed"
    /\ ( IsUpload /\ staging_bundle.buffer = "destroyed" )
         => /\ OnlyCalls(calls, { "destroy_buffer", "free_memory" })
                 = << "destroy_buffer", "free_memory" >>
            /\ \E i \in DOMAIN calls :
                  /\ calls[i].call = "destroy_buffer"
                  /\ calls[i + 1].call = "free_memory"
            /\ staging_bundle.memory = "destroyed"

\* A buffer has been created and released.
C11_Witness ==
    /\ op = "BufferBundle::manually_drop" /\ ret = "Ok"
    /\ bundle.buffer = "destroyed" /\ bundle.memory = "destroyed"
    /\ Len(calls) = 2

\* C12: the descriptor set is written once, by allocate_and_create, in the
\* step in which its upload has completed (the fence signaled) and the
\* texture is handed to the caller, with binding 0 the image view in layout
\* ShaderReadOnlyOptimal and binding 1 the sampler; no step of an edit or of
\* a release writes it, so a resource the caller holds has exactly one write.
C12_DescriptorWrittenOnce ==
    [][ /\ descriptors' # descriptors
             => /\ op = "allocate_and_create" /\ pc = "waiting"
                /\ upload_fence = "signaled"
                /\ image_object.layout = "ShaderReadOnlyOptimal"
                /\ ~texture.owned /\ texture'.owned
                /\ ret' = "Ok"
                /\ descriptors.writes = 0
                /\ descriptors' =
                      [ binding0 |-> << "image_view", "ShaderReadOnlyOptimal" >>,
                        binding1 |-> "sampler", writes |-> 1 ]
                /\ texture'.image_view = "live" /\ texture'.sampler = "live"
                /\ OnlyCalls(calls', { "write_descriptor_sets" })
                     = << "write_descriptor_sets" >>
        /\ texture'.owned => descriptors'.writes = 1
        /\ ~texture'.owned => descriptors'.writes = 0
        /\ op' # "allocate_and_create" => ~Called("write_descriptor_sets")'
      ]_vars

\* An edit of the created image has returned: still one write.
C12_Witness ==
    /\ op = "edit_image" /\ pc = "idle" /\ ret = "Ok"
    /\ texture.owned
    /\ descriptors.writes = 1

AllHandlesLive(t) ==
    /\ t.image = "live" /\ t.memory = "live" /\ t.image_view = "live"
    /\ t.sampler = "live" /\ t.descriptor_set = "live"

\* C13: the caller holds an Image Resource only from an allocate_and_create
\* that returned Ok, and then every step has been made: the five handles are
\* live, the pixel data is in the image, the image is shader-readable and
\* the descriptor set is written; an allocate_and_create that returned an
\* error left the caller no Image Resource.
C13_AllOrNothing ==
    /\ ( op = "allocate_and_create" /\ pc = "idle" /\ ret = "Ok" )
         => /\ texture.owned /\ AllHandlesLive(texture)
            /\ CallNames(calls)[1] = "create_image"
            /\ OnlyCalls(calls, { "create_image", "get_image_requirements",
                                  "bind_image_memory", "create_image_view",
                                  "create_sampler", "allocate_descriptor_set",
                                  "wait_for_fence", "write_descriptor_sets" })
                 = << "create_image", "get_image_requirements",
                      "bind_image_memory", "create_image_view", "create_sampler",
                      "allocate_descriptor_set", "wait_for_fence",
                      "write_descriptor_sets" >>
            /\ descriptors.writes = 1
            /\ upload_fence = "destroyed"
            /\ image_object.layout = "ShaderReadOnlyOptimal"
            /\ \A q \in DOMAIN image_object.pixels :
                  image_object.pixels[q] = TexelOf(args.img, args.width, q[1], q[2])
    /\ ( op = "allocate_and_create" /\ ret # "Ok" )
         => /\ ~texture.owned
            /\ descriptors.writes = 0
    /\ ( op = "allocate_and_create" /\ pc = "idle" /\ ret # "Ok" )
         => texture = NoTexture
    /\ texture.owned => ops >= 1

\* An allocate_and_create has failed at its last fallible step, the wait.
C13_Witness ==
    /\ op = "allocate_and_create" /\ pc = "idle" /\ ret = "WaitForFence"
    /\ Called("allocate_descriptor_set")
    /\ ~texture.owned

\* The device log of a BufferBundle::new that failed with `r`: the steps up
\* to the one that failed, each once, and none after it.
FailedNewCalls(r) ==
    IF r = "Creation" THEN << "create_buffer" >>
    ELSE IF r = "MemoryId" THEN << "create_buffer", "get_buffer_requirements" >>
    ELSE IF r = "Allocate"
    THEN << "create_buffer", "get_buffer_requirements", "allocate_memory" >>
    ELSE IF r = "Bind"
    THEN << "create_buffer", "get_buffer_requirements", "allocate_memory",
            "bind_buffer_memory" >>
    ELSE << "create_buffer", "get_buffer_requirements", "allocate_memory",
            "bind_buffer_memory", "map_memory" >>

C15_EditBoundsChecked ==
    ( /\ op = "edit_image"
      /\ \/ args.offset[1] + args.width > image_object.width
         \/ args.offset[2] + args.height > image_object.height )
    => /\ pc = "idle"
       /\ ret = "OutOfBounds"
       /\ ~Called("create_buffer")
       /\ ~Called("acquire_command_buffer")
       /\ queue = << >>

\* 4 * width rounded up to a multiple of the pitch alignment.
RoundedRowPitch(width) ==
    ((4 * width + alignment - 1) \div alignment) * alignment

\* C16: when an upload has filled its staging buffer, the buffer was
\* requested with rowPitch * height bytes as a transfer source and not
\* mapped by its construction; row y of the pixel data is in the staging
\* bytes [y * rowPitch, y * rowPitch + rowSize); the padding of every row
\* and every byte from rowPitch * height on were never written; and the
\* copy command's buffer row length is rowPitch / 4 texels.
C16_StagingRows ==
    ( IsUpload /\ pc = "waiting" )
    => LET rs == 4 * args.width
           rp == RoundedRowPitch(args.width)
           h  == args.height
           b  == staging_bundle.bytes
       IN  /\ \E i \in DOMAIN calls :
                 /\ calls[i].call = "create_buffer"
                 /\ calls[i].arg = << rp * h, "TRANSFER_SRC" >>
           /\ ~Called("map_memory")
           /\ ~staging_bundle.mapped
           /\ \A y \in 0..(h - 1) :
                 /\ \A k \in 0..(rs - 1) : b[y * rp + k] = args.img[y * rs + k]
                 /\ \A k \in rs..(rp - 1) : b[y * rp + k] = Uninit
           /\ \A k \in DOMAIN b : k >= rp * h => b[k] = Uninit
           /\ cmd_buffer.commands[2].buffer_width = rp \div 4
           /\ cmd_buffer.commands[2].buffer_offset = 0

\* An upload of two rows has filled a staging buffer whose rows are padded
\* and which is larger than requested.
C16_Witness ==
    /\ IsUpload /\ pc = "waiting"
    /\ args.height = 2
    /\ RoundedRowPitch(args.width) > 4 * args.width
    /\ staging_bundle.requirements.size > RoundedRowPitch(args.width) * args.height

OneIf(b) == IF b THEN 1 ELSE 0

\* C17: a failed allocate_and_create or BufferBundle::new has made no
\* destroy or free call and has handed the caller nothing; every handle its
\* earlier steps created (image, buffer, each memory allocation that was
\* made, view, sampler, descriptor set) is still live and owned by no value.
C17_NoReleaseOnFailure ==
    /\ ( op = "allocate_and_create" /\ pc = "idle" /\ ret # "Ok" )
         => /\ \A i \in DOMAIN calls : calls[i].call \notin ReleaseCalls
            /\ texture = NoTexture
            /\ leaked.image = OneIf(Called("get_image_requirements"))
            /\ leaked.memory = CountCalls(calls, "bind_image_memory")
                                 + CountCalls(calls, "bind_buffer_memory")
            /\ leaked.image_view = OneIf(Called("create_sampler"))
            /\ leaked.sampler = OneIf(Called("allocate_descriptor_set"))
            /\ leaked.descriptor_set = OneIf(Called("create_buffer"))
            /\ leaked.buffer = OneIf(Called("get_buffer_requirements"))
    /\ ( op = "BufferBundle::new" /\ ret # "Ok" )
         => /\ \A i \in DOMAIN calls : calls[i].call \notin ReleaseCalls
            /\ bundle = NoBundle
            /\ Called("get_buffer_requirements") => leaked.buffer >= 1
            /\ Called("bind_buffer_memory") => leaked.memory >= 1

\* An allocate_and_create has failed in create_sampler, with the image, its
\* memory and its view made.
C17_Witness ==
    /\ op = "allocate_and_create" /\ pc = "idle" /\ ret = "Sampler"
    /\ leaked.image = 1 /\ leaked.memory = 1 /\ leaked.image_view = 1

\* C18: a BufferBundle::new that returns Ok has allocated exactly
\* requirements.size bytes, at least the size asked for, from a type with
\* CPU_VISIBLE, has bound the memory at offset 0 and only then mapped it;
\* it has mapped it, over [0, requirements.size), if and only if map_it; and
\* no update_buffer and no flush changes whether the pointer is present.
C18_NewPostconditions ==
    [][ /\ ( op' = "BufferBundle::new" /\ ops' = ops + 1 /\ ret' = "Ok" )
             => LET b   == bundle'
                    req == b.requirements
                IN  /\ b.buffer = "live" /\ b.memory = "live"
                    /\ req.size >= args'.size
                    /\ DOMAIN b.bytes = 0..(req.size - 1)
                    /\ "CPU_VISIBLE" \in memory_types[b.memory_type + 1]
                    /\ Bit(req.type_mask, b.memory_type) = 1
                    /\ b.mapped = args'.map_it
                    /\ CallNames(calls') =
                         << "create_buffer", "get_buffer_requirements",
                            "allocate_memory", "bind_buffer_memory" >>
                         \o ( IF args'.map_it THEN << "map_memory" >> ELSE << >> )
                    /\ calls'[3].arg = << b.memory_type, req.size >>
                    /\ calls'[4].arg = << 0 >>
                    /\ args'.map_it => calls'[5].arg = << 0, req.size >>
        /\ ( op' \in { "update_buffer", "flush" } /\ ops' = ops + 1 )
             => /\ bundle'.mapped = bundle.mapped
                /\ bundle'.requirements = bundle.requirements
                /\ ~Called("map_memory")'
      ]_vars

\* A buffer created with map_it has been updated through its pointer.
C18_Witness ==
    /\ op = "update_buffer" /\ ret = "Ok"
    /\ bundle.mapped /\ bundle.memory = "live"
    /\ \E k \in DOMAIN bundle.bytes : bundle.bytes[k] # Uninit

C20_BlockingWait ==
    /\ [][ ( pc = "waiting" /\ pc' # "waiting" )
             => \/ upload_fence = "signaled" /\ ret' = "Ok" /\ pc' = "idle"
                \/ ret' = "WaitForFence" /\ pc' = "idle" ]_vars
    /\ [][ ( pc = "waiting" /\ upload_fence = "unsignaled" /\ queue = << >> )
             => ( pc' = "waiting" \/ ret' = "WaitForFence" ) ]_vars
    /\ ( pc = "waiting" ) ~> ( pc = "idle" )

\* An upload has waited, with the queue still busy, and returned the wait's
\* error.
C20_Witness ==
    /\ IsUpload /\ pc = "idle" /\ ret = "WaitForFence"
    /\ upload_fence = "unsignaled"
    /\ Called("wait_for_fence")

\* C21: a released BufferBundle or LoadedImage takes no further call, so
\* the call that released it is the last one made, and the device never sees
\* a handle destroyed twice or used after it was destroyed.
C21_SingleUseRelease ==
    /\ misuse = {}
    /\ bundle.buffer = "destroyed" => op = "BufferBundle::manually_drop"
    /\ texture.image = "destroyed" => op = "LoadedImage::manually_drop"

\* C22: when an upload has submitted its commands and the queue has not
\* started on them, the old layout its first barrier declares is the layout
\* the image is in: Undefined for the upload of allocate_and_create,
\* ShaderReadOnlyOptimal for that of every later edit_image.
C22_OldLayoutIsImageLayout ==
    ( /\ IsUpload /\ pc = "waiting" /\ upload_fence = "unsignaled"
      /\ Len(queue) = 1 /\ texture.image = "live" )
    => /\ queue[1].commands[1].cmd = "pipeline_barrier"
       /\ queue[1].commands[1].old_layout = image_object.layout
       /\ image_object.layout =
            IF op = "allocate_and_create" THEN "Undefined"
            ELSE "ShaderReadOnlyOptimal"

====
